---- MODULE Spec2Model ----
(***************************************************************************)
(* Model of src/convert2lineprotocol.cpp: MexFunction::operator(), the     *)
(* encoder of a columnar dataset into InfluxDB line protocol.              *)
(*                                                                         *)
(* Text (std::u16string) is a sequence of one-character strings, so that   *)
(* pop_back, concatenation and the separators are what the code makes      *)
(* them.  A cell of a column is a record [k, n, s]: k is the kind of the   *)
(* value ("int", "text", "num" for a finite float, "nan", "inf", "ninf",   *)
(* "other"), n its integer (a float counts in halves: n = 7 is 3.5), s     *)
(* its text.  The caller's float cells are drawn when the call reads them *)
(* (k = "unread" until then): the call reads a cell at most once, so the   *)
(* dataset a behaviour ends with is one the caller could have passed.      *)
(***************************************************************************)
EXTENDS Integers, Sequences, FiniteSets, TLC

\* ------------------------------------------------------------------ bounds
MaxRows == 2

MaxTags == 2

MaxFields == 3

MaxTypedFields == 1

MaxTypedTags == 1

\* inputs: the arguments of the call (lines 16-21); res, iRow, rowStr, addRow,
\* nanNum, colIndx: the locals of those names (lines 23, 37-46); popped: the
\* character the last pop_back of the row removed (line 172), "" when none;
\* pc: where the call stands; outputs: outputs[0] once set (line 188).
VARIABLES inputs, res, iRow, rowStr, addRow, nanNum, colIndx, popped, pc, outputs

vars == <<inputs, res, iRow, rowStr, addRow, nanNum, colIndx, popped, pc, outputs>>

\* ------------------------------------------------------------- conversions
DigitChar(d) == <<"0", "1", "2", "3", "4", "5", "6", "7", "8", "9">>[d + 1]

RECURSIVE Digits(_)
Digits(n) == IF n < 10 THEN <<DigitChar(n)>>
             ELSE Digits(n \div 10) \o <<DigitChar(n % 10)>>

\* std::to_wstring of an integer: decimal digits, a leading '-' when negative
to_wstring(n) == IF n < 0 THEN <<"-">> \o Digits(-n) ELSE Digits(n)

\* std::to_wstring of a double ("%f": six decimals); h counts halves
to_wstring_double(h) ==
    LET a == IF h < 0 THEN -h ELSE h
    IN  (IF h < 0 THEN <<"-">> ELSE <<>>) \o Digits(a \div 2) \o <<".">>
        \o (IF a % 2 = 1 THEN <<"5">> ELSE <<"0">>) \o <<"0", "0", "0", "0", "0">>

\* std::isfinite
isfinite(cell) == cell.k = "num"

\* ------------------------------------------------------------------ inputs
IntCell(n) == [k |-> "int", n |-> n, s |-> <<>>]

TextCell(s) == [k |-> "text", n |-> 0, s |-> s]

FloatCell(kind, h) == [k |-> kind, n |-> h, s |-> <<>>]

OtherCell == [k |-> "other", n |-> 0, s |-> <<>>]

UnreadCell == [k |-> "unread", n |-> 0, s |-> <<>>]

SignedTypes == {"INT8", "INT16", "INT32", "INT64"}

UnsignedTypes == {"UINT8", "UINT16", "UINT32", "UINT64"}

TextTypes == {"CELL", "MATLAB_STRING"}

FloatTypes == {"DOUBLE", "SINGLE"}

\* ArrayType values the field switch has no case for
UnsupportedTypes == {"LOGICAL", "CHAR"}

AllTypes == SignedTypes \cup UnsignedTypes \cup TextTypes \cup FloatTypes \cup UnsupportedTypes

Rows == 0 .. (MaxRows - 1)

\* The cells are set by their position, so that every row, column and value
\* is told from the others; the column types and which floats are finite vary.
TimeColumn == [type |-> "INT64", vals |-> [r \in Rows |-> IntCell(100 * r - 50)]]

NonFinite(j, r) == <<"nan", "inf", "ninf">>[((j + r) % 3) + 1]

TagCell(i, type, r) ==
    IF type \in TextTypes THEN TextCell(<<"v">> \o Digits(i) \o Digits(r))
    ELSE FloatCell("num", 2 * i + r)

FieldCell(j, type, r, fin) ==
    IF type \in SignedTypes THEN IntCell(7 * j + 13 * r - 20)
    ELSE IF type \in UnsignedTypes THEN IntCell(7 * j + 13 * r - 7)
    ELSE IF type \in TextTypes
         THEN TextCell(IF r % 2 = 0 THEN <<"o", "k">> \o Digits(j)
                       ELSE <<"o", "\"", "k">>)
    ELSE IF type \in FloatTypes
         THEN (IF fin THEN FloatCell("num", 7 + 3 * j - 10 * r)
               ELSE FloatCell(NonFinite(j, r), 0))
    ELSE OtherCell

TagName(i) == <<"t">> \o Digits(i)

FieldName(j) == <<"f">> \o Digits(j)

MkInputs(tt, ft, a, b) ==
    LET nt == Len(tt)
        nf == Len(ft)
    IN  [measurement |-> <<"m">>,
         fieldNames |-> [j \in 1 .. nf |-> FieldName(j)],
         tagNames |-> [i \in 1 .. nt |-> TagName(i)],
         data |-> [c \in 0 .. (nt + nf) |->
                     IF c = 0 THEN TimeColumn
                     ELSE IF c <= nt
                          THEN [type |-> tt[c],
                                vals |-> [r \in Rows |-> TagCell(c, tt[c], r)]]
                     ELSE [type |-> ft[c - nt],
                           vals |-> [r \in Rows |->
                                       IF ft[c - nt] \in FloatTypes THEN UnreadCell
                                       ELSE FieldCell(c - nt, ft[c - nt], r, TRUE)]]],
         startRow |-> a,
         endRow |-> b]

NT(in) == Len(in.tagNames)

NF(in) == Len(in.fieldNames)

\* ---------------------------------------------------------------- the code
\* the locals of one pass of the row loop
Locals0 == [rowStr |-> <<>>, addRow |-> TRUE, nanNum |-> 0, colIndx |-> 0, popped |-> ""]

\* RowInit with the skip counter left as the row before set it
RowInitCarry(in, prev) ==
    [rowStr |-> in.measurement \o (IF NT(in) <= 0 THEN <<" ">> ELSE <<",">>),
     addRow |-> TRUE,
     nanNum |-> prev.nanNum,
     colIndx |-> 0,
     popped |-> ""]

\* RowInit without the case of no tag column
RowInitAlwaysComma(in, prev) ==
    [rowStr |-> in.measurement \o <<",">>,
     addRow |-> TRUE,
     nanNum |-> 0,
     colIndx |-> 0,
     popped |-> ""]

RowInit(in, prev) ==
    [rowStr |-> in.measurement \o (IF NT(in) <= 0 THEN <<" ">> ELSE <<",">>),
     addRow |-> TRUE,
     nanNum |-> 0,
     colIndx |-> 0,
     popped |-> ""]

TagValue(col, r) ==
    CASE col.type = "CELL" -> col.vals[r].s
      [] col.type = "MATLAB_STRING" -> col.vals[r].s
      [] OTHER -> <<>>

\* TagStepOp with a comma after the last tag too
TagStepAlwaysComma(in, s, r) ==
    LET c == s.colIndx + 1
    IN  [s EXCEPT !.rowStr = @ \o in.tagNames[c] \o <<"=">> \o TagValue(in.data[c], r)
                             \o <<",">>,
                  !.colIndx = c]

TagStepOp(in, s, r) ==
    LET c == s.colIndx + 1
    IN  [s EXCEPT !.rowStr = @ \o in.tagNames[c] \o <<"=">> \o TagValue(in.data[c], r)
                             \o (IF c = NT(in) THEN <<" ">> ELSE <<",">>),
                  !.colIndx = c]

\* FieldToken with the UINT16 case pasted from INT16
FieldTokenPasted(col, r) ==
    LET v == col.vals[r]
    IN  CASE col.type \in {"INT8", "INT16", "UINT16", "INT32", "INT64"} ->
                [is_nan |-> FALSE, text |-> to_wstring(v.n) \o <<"i">>]
          [] col.type \in {"UINT8", "UINT32", "UINT64"} ->
                [is_nan |-> FALSE, text |-> to_wstring(v.n) \o <<"u">>]
          [] col.type \in {"CELL", "MATLAB_STRING"} ->
                [is_nan |-> FALSE, text |-> <<"\"">> \o v.s \o <<"\"">>]
          [] col.type \in {"DOUBLE", "SINGLE"} ->
                IF ~isfinite(v) THEN [is_nan |-> TRUE, text |-> <<>>]
                ELSE [is_nan |-> FALSE, text |-> to_wstring_double(v.n)]
          [] OTHER -> [is_nan |-> TRUE, text |-> <<>>]

\* the switch of the field loop: what is appended after name= and is_nan
FieldToken(col, r) ==
    LET v == col.vals[r]
    IN  CASE col.type = "INT8" -> [is_nan |-> FALSE, text |-> to_wstring(v.n) \o <<"i">>]
          [] col.type = "UINT8" -> [is_nan |-> FALSE, text |-> to_wstring(v.n) \o <<"u">>]
          [] col.type = "INT16" -> [is_nan |-> FALSE, text |-> to_wstring(v.n) \o <<"i">>]
          [] col.type = "UINT16" -> [is_nan |-> FALSE, text |-> to_wstring(v.n) \o <<"u">>]
          [] col.type = "INT32" -> [is_nan |-> FALSE, text |-> to_wstring(v.n) \o <<"i">>]
          [] col.type = "UINT32" -> [is_nan |-> FALSE, text |-> to_wstring(v.n) \o <<"u">>]
          [] col.type = "INT64" -> [is_nan |-> FALSE, text |-> to_wstring(v.n) \o <<"i">>]
          [] col.type = "UINT64" -> [is_nan |-> FALSE, text |-> to_wstring(v.n) \o <<"u">>]
          [] col.type = "CELL" -> [is_nan |-> FALSE, text |-> <<"\"">> \o v.s \o <<"\"">>]
          [] col.type = "MATLAB_STRING" -> [is_nan |-> FALSE, text |-> <<"\"">> \o v.s \o <<"\"">>]
          [] col.type \in {"DOUBLE", "SINGLE"} ->
                IF ~isfinite(v) THEN [is_nan |-> TRUE, text |-> <<>>]
                ELSE [is_nan |-> FALSE, text |-> to_wstring_double(v.n)]
          [] OTHER -> [is_nan |-> TRUE, text |-> <<>>]

\* CountSkip that never clears addRow
CountSkipKeepRow(in, s, type) == [s EXCEPT !.nanNum = @ + 1]

\* CountSkip whose default case counts nothing
CountSkipFloatOnly(in, s, type) ==
    IF type \in {"DOUBLE", "SINGLE"}
    THEN [s EXCEPT !.nanNum = @ + 1,
                   !.addRow = IF NF(in) = s.nanNum + 1 THEN FALSE ELSE @]
    ELSE s

\* the counting of a skipped field, in the float case and in the default case
CountSkip(in, s, type) ==
    [s EXCEPT !.nanNum = @ + 1,
              !.addRow = IF NF(in) = s.nanNum + 1 THEN FALSE ELSE @]

\* FieldSep that appends a comma after a skipped field as well
FieldSepCommaOnSkip(s, isLast, is_nan) ==
    IF isLast /\ is_nan
    THEN [s EXCEPT !.rowStr = SubSeq(@, 1, Len(@) - 1) \o <<" ">>,
                   !.popped = s.rowStr[Len(s.rowStr)]]
    ELSE IF isLast THEN [s EXCEPT !.rowStr = @ \o <<" ">>]
    ELSE [s EXCEPT !.rowStr = @ \o <<",">>]

\* FieldSep without the pop_back
FieldSepNoPop(s, isLast, is_nan) ==
    IF isLast THEN [s EXCEPT !.rowStr = @ \o <<" ">>]
    ELSE IF ~is_nan THEN [s EXCEPT !.rowStr = @ \o <<",">>]
    ELSE s

\* the separator bookkeeping after a field
FieldSep(s, isLast, is_nan) ==
    IF isLast /\ is_nan
    THEN [s EXCEPT !.rowStr = SubSeq(@, 1, Len(@) - 1) \o <<" ">>,
                   !.popped = s.rowStr[Len(s.rowStr)]]
    ELSE IF isLast THEN [s EXCEPT !.rowStr = @ \o <<" ">>]
    ELSE IF ~is_nan THEN [s EXCEPT !.rowStr = @ \o <<",">>]
    ELSE s

FieldStepOp(in, s, r) ==
    LET c == s.colIndx + 1
        j == c - NT(in)
        col == in.data[c]
        tok == FieldToken(col, r)
        s1 == [s EXCEPT !.colIndx = c]
        s2 == IF tok.is_nan THEN CountSkip(in, s1, col.type)
              ELSE [s1 EXCEPT !.rowStr = @ \o in.fieldNames[j] \o <<"=">> \o tok.text]
    IN  FieldSep(s2, j = NF(in), tok.is_nan)

\* RowEndOp that puts the new line before the text so far
RowEndPrepend(in, out, s, r) ==
    IF s.addRow
    THEN s.rowStr \o to_wstring(in.data[0].vals[r].n) \o <<"\n">> \o out
    ELSE out

RowEndOp(in, out, s, r) ==
    IF s.addRow
    THEN out \o s.rowStr \o to_wstring(in.data[0].vals[r].n) \o <<"\n">>
    ELSE out

\* the loops, as the call runs them
RECURSIVE RunTags(_, _, _)
RunTags(in, s, r) ==
    IF s.colIndx < NT(in) THEN RunTags(in, TagStepOp(in, s, r), r) ELSE s

RECURSIVE RunFields(_, _, _)
RunFields(in, s, r) ==
    IF s.colIndx < NT(in) + NF(in) THEN RunFields(in, FieldStepOp(in, s, r), r) ELSE s

RECURSIVE RunRows(_, _, _, _, _)
RunRows(in, out, prev, i, b) ==
    IF i < b
    THEN LET s == RunFields(in, RunTags(in, RowInit(in, prev), i), i)
         IN  RunRows(in, RowEndOp(in, out, s, i), s, i + 1, b)
    ELSE out

\* the text one call returns for the rows [a, b) of a dataset
Encode(in, a, b) == RunRows(in, <<>>, Locals0, a, b)

\* ------------------------------------------------------------ state machine
Locals == [rowStr |-> rowStr, addRow |-> addRow, nanNum |-> nanNum,
           colIndx |-> colIndx, popped |-> popped]

SetLocals(s) ==
    /\ rowStr' = s.rowStr
    /\ addRow' = s.addRow
    /\ nanNum' = s.nanNum
    /\ colIndx' = s.colIndx
    /\ popped' = s.popped

\* where the call stands once colIndx columns of the row are done.  lastTag
\* (lines 32-33) and lastMinusOne (line 35) are end() stepped back by one: with
\* no tag column, or no field column, the loop that compares them never runs.
Position(in, c) ==
    IF c < NT(in) THEN "tags"
    ELSE IF c < NT(in) + NF(in) THEN "fields"
    ELSE "emit"

Start(in) ==
    /\ inputs = in
    /\ res = <<>>
    /\ iRow = in.startRow
    /\ rowStr = <<>>
    /\ addRow = TRUE
    /\ nanNum = 0
    /\ colIndx = 0
    /\ popped = ""
    /\ pc = "loop"
    /\ outputs = <<>>

\* the datasets of the contract: text tag columns, at least one field column.
\* A field column is an integer, a float or an unsupported column; the tag
\* columns take the two text representations in turn.
FieldTypes == {"INT32", "DOUBLE", "LOGICAL"}

TagTypeAt(i) == IF i % 2 = 1 THEN "CELL" ELSE "MATLAB_STRING"

Init ==
    \E nt \in 0 .. MaxTags, nf \in 1 .. MaxFields, a \in 0 .. MaxRows, b \in 0 .. MaxRows :
        \E ft \in [1 .. nf -> FieldTypes] :
            /\ a <= b
            /\ Start(MkInputs([i \in 1 .. nt |-> TagTypeAt(i)], ft, a, b))

\* the datasets of any column types, with or without a field column
InitAny ==
    \E nt \in 0 .. MaxTypedTags, nf \in 0 .. MaxTypedFields, a \in 0 .. MaxRows, b \in 0 .. MaxRows :
        \E tt \in [1 .. nt -> TextTypes \cup {"DOUBLE"}], ft \in [1 .. nf -> AllTypes] :
            /\ a <= b
            /\ Start(MkInputs(tt, ft, a, b))

RowBegin ==
    /\ pc = "loop"
    /\ iRow < inputs.endRow
    /\ SetLocals(RowInit(inputs, Locals))
    /\ pc' = Position(inputs, 0)
    /\ UNCHANGED <<inputs, res, iRow, outputs>>

TagStep ==
    /\ pc = "tags"
    /\ SetLocals(TagStepOp(inputs, Locals, iRow))
    /\ pc' = Position(inputs, colIndx + 1)
    /\ UNCHANGED <<inputs, res, iRow, outputs>>

\* col[iRow] of a float column is what the caller put there, finite or not
FieldStep ==
    /\ pc = "fields"
    /\ LET c == colIndx + 1
           type == inputs.data[c].type
       IN  \E fin \in (IF type \in FloatTypes THEN BOOLEAN ELSE {TRUE}) :
               /\ inputs' = [inputs EXCEPT !.data[c].vals[iRow] =
                                 FieldCell(c - NT(inputs), type, iRow, fin)]
               /\ SetLocals(FieldStepOp(inputs', Locals, iRow))
    /\ pc' = Position(inputs, colIndx + 1)
    /\ UNCHANGED <<res, iRow, outputs>>

RowEnd ==
    /\ pc = "emit"
    /\ res' = RowEndOp(inputs, res, Locals, iRow)
    /\ iRow' = iRow + 1
    /\ pc' = "loop"
    /\ UNCHANGED <<inputs, rowStr, addRow, nanNum, colIndx, popped, outputs>>

Return ==
    /\ pc = "loop"
    /\ ~(iRow < inputs.endRow)
    /\ outputs' = <<res>>
    /\ pc' = "done"
    /\ UNCHANGED <<inputs, res, iRow, rowStr, addRow, nanNum, colIndx, popped>>

Next == RowBegin \/ TagStep \/ FieldStep \/ RowEnd \/ Return

Spec == Init /\ [][Next]_vars

SpecAny == InitAny /\ [][Next]_vars

TypeOK ==
    /\ pc \in {"loop", "tags", "fields", "emit", "done"}
    /\ iRow \in inputs.startRow .. inputs.endRow
    /\ nanNum \in 0 .. NF(inputs)
    /\ colIndx \in 0 .. (NT(inputs) + NF(inputs))
    /\ addRow \in BOOLEAN

\* ------------------------------------------------- what the claims speak of
EndsWith(s, t) == Len(t) <= Len(s) /\ SubSeq(s, Len(s) - Len(t) + 1, Len(s)) = t

StartsWith(s, t) == Len(t) <= Len(s) /\ SubSeq(s, 1, Len(t)) = t

\* the lines of a text, each without its newline: the k-th line runs from
\* after the (k-1)-th newline to before the k-th (text after the last newline
\* is no line, see Terminated)
LinesOf(s) ==
    LET ends == {i \in 1 .. Len(s) : s[i] = "\n"}
        EndOf(k) == IF k = 0 THEN 0
                    ELSE CHOOSE p \in ends : Cardinality({q \in ends : q < p}) = k - 1
    IN  [k \in 1 .. Cardinality(ends) |-> SubSeq(s, EndOf(k - 1) + 1, EndOf(k) - 1)]

Terminated(s) == s = <<>> \/ s[Len(s)] = "\n"

RECURSIVE Join(_, _)
Join(parts, sep) ==
    IF parts = <<>> THEN <<>>
    ELSE IF Len(parts) = 1 THEN parts[1]
    ELSE parts[1] \o sep \o Join(Tail(parts), sep)

\* a field is skipped when its column type is unsupported or its float is not finite
Skipped(in, j, r) ==
    LET col == in.data[NT(in) + j]
    IN  \/ col.type \in AllTypes \ (SignedTypes \cup UnsignedTypes \cup TextTypes \cup FloatTypes)
        \/ col.type \in FloatTypes /\ col.vals[r].k \in {"nan", "inf", "ninf"}

KeptFields(in, r) == {j \in 1 .. NF(in) : ~Skipped(in, j, r)}

AllSkipped(in, r) == KeptFields(in, r) = {}

Max(S) == CHOOSE x \in S : \A y \in S : y <= x

Min(S) == CHOOSE x \in S : \A y \in S : x <= y

RowsOfCall == inputs.startRow .. (inputs.endRow - 1)

\* the rows of [a, b) with a kept field, ascending
RECURSIVE KeptRows(_, _, _)
KeptRows(in, a, b) ==
    IF a >= b THEN <<>>
    ELSE (IF AllSkipped(in, a) THEN <<>> ELSE <<a>>) \o KeptRows(in, a + 1, b)

\* the value token the specification gives a kept field that is no float
ExpectedValue(col, r) ==
    IF col.type \in SignedTypes THEN to_wstring(col.vals[r].n) \o <<"i">>
    ELSE IF col.type \in UnsignedTypes THEN to_wstring(col.vals[r].n) \o <<"u">>
    ELSE <<"\"">> \o col.vals[r].s \o <<"\"">>

PlainDecimal(t) ==
    /\ t # <<>>
    /\ \A i \in 1 .. Len(t) :
          t[i] \in {"0", "1", "2", "3", "4", "5", "6", "7", "8", "9", "-", "."}
    /\ t[Len(t)] \in {"0", "1", "2", "3", "4", "5", "6", "7", "8", "9"}

\* name=value of field j in row r, as the code formats the value
Pair(in, j, r) ==
    in.fieldNames[j] \o <<"=">> \o FieldToken(in.data[NT(in) + j], r).text

\* the separator after field j when it is kept
Sep(in, j) == IF j = NF(in) THEN <<" ">> ELSE <<",">>

\* the field the call has just handled in row iRow (0 when it is not in the field loop)
FieldDone == IF pc \in {"fields", "emit"} /\ colIndx > NT(inputs) THEN colIndx - NT(inputs) ELSE 0

\* the tag the call has just handled in row iRow (0 when none)
TagDone == IF pc \in {"tags", "fields", "emit"} /\ colIndx <= NT(inputs) THEN colIndx ELSE 0

\* the row whose pass has just ended (-1 when none)
RowDone == IF pc \in {"loop", "done"} /\ iRow > inputs.startRow THEN iRow - 1 ELSE -1

\* the last line of a text, with its newline
LastLine(s) == LET ls == LinesOf(s) IN ls[Len(ls)] \o <<"\n">>

\* the dataset without row r0: the rows after it move up by one
WithoutRow(in, r0) ==
    [in EXCEPT !.data = [c \in DOMAIN in.data |->
                           [in.data[c] EXCEPT !.vals =
                               [r \in 0 .. (MaxRows - 2) |->
                                   IF r < r0 THEN in.data[c].vals[r] ELSE in.data[c].vals[r + 1]]]]]

\* the dataset with field column j made a float column of NaN
WithNaNColumn(in, j) ==
    [in EXCEPT !.data[NT(in) + j] =
        [type |-> "DOUBLE", vals |-> [r \in Rows |-> FloatCell("nan", 0)]]]

\* ------------------------------------------------------------------ claims

\* C1: when every field of a row of the range is skipped, the call appends
\* nothing for that row, and its output is the output for the dataset without
\* that row.
C1_SuppressedRowAbsent ==
    pc = "done" =>
        \A r0 \in RowsOfCall :
            AllSkipped(inputs, r0) =>
                outputs[1] = Encode(WithoutRow(inputs, r0), inputs.startRow, inputs.endRow - 1)

C1_Witness ==
    /\ pc = "done"
    /\ NT(inputs) > 0
    /\ \E r0 \in RowsOfCall : AllSkipped(inputs, r0) /\ r0 + 1 \in RowsOfCall
                              /\ ~AllSkipped(inputs, r0 + 1)
    /\ outputs[1] # <<>>

\* C2 as stated: a kept field that follows a skipped field is joined to the
\* field token emitted before it with nothing in between.
C2_NoSeparator ==
    LET j == FieldDone
    IN  (j >= 3 /\ Skipped(inputs, j - 1, iRow) /\ ~Skipped(inputs, j, iRow)
              /\ KeptFields(inputs, iRow) \cap (1 .. (j - 2)) # {}) =>
            LET k == Max(KeptFields(inputs, iRow) \cap (1 .. (j - 2)))
            IN  EndsWith(rowStr, Pair(inputs, k, iRow) \o Pair(inputs, j, iRow) \o Sep(inputs, j))

\* C2 amended: a kept field that follows skipped fields comes after the field
\* token emitted before it and exactly one comma.
C2_OneComma ==
    LET j == FieldDone
    IN  (j >= 3 /\ Skipped(inputs, j - 1, iRow) /\ ~Skipped(inputs, j, iRow)
              /\ KeptFields(inputs, iRow) \cap (1 .. (j - 2)) # {}) =>
            LET k == Max(KeptFields(inputs, iRow) \cap (1 .. (j - 2)))
            IN  EndsWith(rowStr, Pair(inputs, k, iRow) \o <<",">> \o Pair(inputs, j, iRow)
                                 \o Sep(inputs, j))

C2_Witness ==
    /\ FieldDone = 3
    /\ ~Skipped(inputs, 1, iRow)
    /\ Skipped(inputs, 2, iRow)
    /\ ~Skipped(inputs, 3, iRow)

\* C3 as stated: with no field column the call emits no line.
C3_NoFieldsNoLine == NF(inputs) = 0 => res = <<>>

\* C4: the text built so far is one newline-terminated line for each row done
\* that has a kept field, in ascending row order, the k-th line carrying the
\* timestamp of the k-th such row; it is empty for an empty range.
C4_LinesInRowOrder ==
    pc \in {"loop", "done"} =>
        LET rows == KeptRows(inputs, inputs.startRow, iRow)
            lines == LinesOf(res)
        IN  /\ Terminated(res)
            /\ Len(lines) = Len(rows)
            /\ \A k \in 1 .. Len(lines) :
                  /\ StartsWith(lines[k], inputs.measurement)
                  /\ EndsWith(lines[k], <<" ">> \o to_wstring(inputs.data[0].vals[rows[k]].n))
            /\ (pc = "done" => outputs[1] = res)
            /\ (inputs.startRow = inputs.endRow => res = <<>>)

C4_Witness ==
    /\ pc = "done"
    /\ Len(LinesOf(outputs[1])) >= 2

\* C5: a row with a tag column and every field kept gives the line
\* measurement , tags joined by commas, a space, fields joined by commas, a
\* space, the timestamp, a newline.
C5_FullLine ==
    LET r == RowDone
    IN  (r >= 0 /\ NT(inputs) >= 1 /\ KeptFields(inputs, r) = 1 .. NF(inputs)) =>
            LastLine(res) =
                inputs.measurement \o <<",">>
                \o Join([i \in 1 .. NT(inputs) |->
                            inputs.tagNames[i] \o <<"=">> \o inputs.data[i].vals[r].s], <<",">>)
                \o <<" ">>
                \o Join([j \in 1 .. NF(inputs) |-> Pair(inputs, j, r)], <<",">>)
                \o <<" ">>
                \o to_wstring(inputs.data[0].vals[r].n) \o <<"\n">>

C5_Witness ==
    /\ RowDone >= 0
    /\ NT(inputs) = 2
    /\ NF(inputs) = 3
    /\ KeptFields(inputs, RowDone) = 1 .. 3

\* C6: with no tag column every emitted line is the measurement, one space,
\* and directly the first kept field's pair.
C6_NoTagsOneSpace ==
    NT(inputs) = 0 =>
        /\ LET lines == LinesOf(res)
               n == Len(inputs.measurement)
           IN  \A k \in 1 .. Len(lines) :
                  /\ StartsWith(lines[k], inputs.measurement \o <<" ">>)
                  /\ StartsWith(SubSeq(lines[k], n + 2, Len(lines[k])), <<"f">>)
        /\ (RowDone >= 0 /\ ~AllSkipped(inputs, RowDone)) =>
              StartsWith(LastLine(res),
                         inputs.measurement \o <<" ">>
                         \o Pair(inputs, Min(KeptFields(inputs, RowDone)), RowDone))

C6_Witness ==
    /\ NT(inputs) = 0
    /\ RowDone >= 0
    /\ KeptFields(inputs, RowDone) = {2}
    /\ NF(inputs) = 3

\* C7: the value token of a pair follows from the column type and the cell: a
\* text tag is the raw text; a signed integer field ends in i, an unsigned one
\* in u; a text field is the raw text in double quotes; a finite float field
\* is a plain decimal with no suffix and no quotes.
C7_ValueTokens ==
    /\ (TagDone > 0 /\ inputs.data[TagDone].type \in TextTypes) =>
          EndsWith(rowStr, inputs.tagNames[TagDone] \o <<"=">>
                           \o inputs.data[TagDone].vals[iRow].s
                           \o (IF TagDone = NT(inputs) THEN <<" ">> ELSE <<",">>))
    /\ (FieldDone > 0 /\ ~Skipped(inputs, FieldDone, iRow)) =>
          LET col == inputs.data[NT(inputs) + FieldDone]
              name == inputs.fieldNames[FieldDone] \o <<"=">>
              sep == Sep(inputs, FieldDone)
          IN  IF col.type \in FloatTypes
              THEN \E n \in 1 .. Len(rowStr) :
                      /\ EndsWith(SubSeq(rowStr, 1, Len(rowStr) - n - 1), name)
                      /\ PlainDecimal(SubSeq(rowStr, Len(rowStr) - n, Len(rowStr) - 1))
                      /\ EndsWith(rowStr, sep)
              ELSE EndsWith(rowStr, name \o ExpectedValue(col, iRow) \o sep)

C7_Witness ==
    /\ FieldDone = 1
    /\ inputs.data[NT(inputs) + 1].type = "UINT16"
    /\ NT(inputs) >= 1
    /\ inputs.data[1].type = "CELL"
    /\ iRow = 1

\* C8: a field column of an unsupported type gives the output that the same
\* dataset gives with that column made a float column of NaN.
C8_UnsupportedAsNaN ==
    pc = "done" =>
        \A j \in 1 .. NF(inputs) :
            inputs.data[NT(inputs) + j].type \in UnsupportedTypes =>
                outputs[1] = Encode(WithNaNColumn(inputs, j), inputs.startRow, inputs.endRow)

C8_Witness ==
    /\ pc = "done"
    /\ \E j \in 1 .. NF(inputs) : inputs.data[NT(inputs) + j].type \in UnsupportedTypes
    /\ \E r \in RowsOfCall : AllSkipped(inputs, r)
    /\ \E r \in RowsOfCall : ~AllSkipped(inputs, r)

\* C9: when the last field of an emitted row is skipped, the character the
\* pop_back removes is the comma after the last kept field; the field list of
\* every emitted row ends with the last kept pair and one space.
C9_PopRemovesComma ==
    (pc = "emit" /\ addRow) =>
        /\ Skipped(inputs, NF(inputs), iRow) => popped = ","
        /\ ~Skipped(inputs, NF(inputs), iRow) => popped = ""
        /\ ~AllSkipped(inputs, iRow)
        /\ LET k == Max(KeptFields(inputs, iRow))
           IN  EndsWith(rowStr, <<"=">> \o FieldToken(inputs.data[NT(inputs) + k], iRow).text
                                \o <<" ">>)

C9_Witness ==
    /\ pc = "emit"
    /\ addRow
    /\ NF(inputs) = 3
    /\ KeptFields(inputs, iRow) = {1}
    /\ popped = ","

\* C10: the output for [a, c) is the output for [a, b) followed by the output
\* for [b, c), for every b between a and c.
C10_Compositional ==
    pc = "done" =>
        \A b \in inputs.startRow .. inputs.endRow :
            outputs[1] = Encode(inputs, inputs.startRow, b) \o Encode(inputs, b, inputs.endRow)

C10_Witness ==
    /\ pc = "done"
    /\ inputs.endRow - inputs.startRow >= 2
    /\ \E r \in RowsOfCall : KeptFields(inputs, r) # {} /\ KeptFields(inputs, r) # 1 .. NF(inputs)
    /\ Len(LinesOf(outputs[1])) >= 2
====
